---- MODULE Spec2Model ----
(***************************************************************************)
(* Model of the render-tree construction of crates/resvg/src/tree.rs:      *)
(* Tree::from_usvg, Tree::from_usvg_node, convert_node, convert_node_inner,*)
(* convert_group, convert_empty_group, convert_children and                *)
(* convert_blend_mode.                                                     *)
(*                                                                         *)
(* Coordinates are integers (the f64/f32 values of the code restricted to  *)
(* small integral values, on which the narrowing casts are exact).         *)
(* Transforms are the six-parameter affine matrices of the code;  the      *)
(* inputs drawn here carry no skew.                                        *)
(*                                                                         *)
(* Every input node carries its `id` (usvg::Node::id), here its position   *)
(* in the document.  Every output node carries a ghost field `src`, the id *)
(* of the input node it was converted from, and the conversion keeps two   *)
(* ghost traces: `calls` (one event per convert_node_inner invocation) and *)
(* `fcalls` (one event per crate::filter::convert invocation).             *)
(***************************************************************************)
EXTENDS Integers, Sequences, FiniteSets, TLC

VARIABLES tree,    \* the input usvg::Tree
          mode,    \* the input of a direct convert_blend_mode call
          pc,      \* "ready" before the call, "done" after it
          entry,   \* the entry point that was called
          arg,     \* id of the node handed to from_usvg_node / convert_node
          result,  \* what the entry point returned
          log,     \* the warning sink (log::warn!)
          calls,   \* ghost: convert_node_inner events
          fcalls   \* ghost: crate::filter::convert events

vars == <<tree, mode, pc, entry, arg, result, log, calls, fcalls>>

\* The number of nodes below the document root.
MaxNodes == 3

----------------------------------------------------------------------------
\* Option<T>

None == <<>>
Some(v) == <<v>>

Min(a, b) == IF a <= b THEN a ELSE b
Max(a, b) == IF a >= b THEN a ELSE b

RECURSIVE Concat(_)
Concat(ss) == IF ss = <<>> THEN <<>> ELSE Head(ss) \o Concat(Tail(ss))

----------------------------------------------------------------------------
\* usvg geometry (crates/usvg), as the converter uses it.

\* usvg::PathBbox::new_bbox(): the "no content" sentinel,
\* PathBbox::new(f64::MAX, f64::MAX, 1.0, 1.0).
new_bbox == [x |-> 1000000, y |-> 1000000, w |-> 1, h |-> 1]

\* FuzzyEq on PathBbox: field-wise comparison within a tolerance far below 1;
\* on integral coordinates it is equality of the four fields.
fuzzy_eq(a, b) == a.x = b.x /\ a.y = b.y /\ a.w = b.w /\ a.h = b.h
fuzzy_ne(a, b) == ~fuzzy_eq(a, b)

\* usvg::PathBbox::expand: the sentinel is replaced, anything else is united.
expand(self, r) ==
    IF fuzzy_eq(self, new_bbox) THEN r
    ELSE LET x1 == Min(self.x, r.x)
             y1 == Min(self.y, r.y)
             x2 == Max(self.x + self.w, r.x + r.w)
             y2 == Max(self.y + self.h, r.y + r.h)
         IN [x |-> x1, y |-> y1, w |-> x2 - x1, h |-> y2 - y1]

\* usvg::PathBbox::to_rect: a Rect needs a positive width and a positive height.
to_rect(b) == IF b.w > 0 /\ b.h > 0 THEN Some(b) ELSE None

\* usvg::AspectRatio::default()
AspectRatioDefault == [defer |-> FALSE, align |-> "xMidYMid", slice |-> FALSE]

----------------------------------------------------------------------------
\* Conversions of tree.rs

\* tiny_skia::Transform::default()
TransformDefault == [sx |-> 1, ky |-> 0, kx |-> 0, sy |-> 1, tx |-> 0, ty |-> 0]

\* ConvTransform::to_native: usvg (a b c d e f) to tiny-skia from_row(sx ky kx sy tx ty)
to_native(t) == [sx |-> t.a, ky |-> t.b, kx |-> t.c, sy |-> t.d, tx |-> t.e, ty |-> t.f]

\* tiny_skia::Transform::pre_concat: self * other (other is applied first).
pre_concat(p, l) ==
    [sx |-> p.sx * l.sx + p.kx * l.ky,
     ky |-> p.ky * l.sx + p.sy * l.ky,
     kx |-> p.sx * l.kx + p.kx * l.sy,
     sy |-> p.ky * l.kx + p.sy * l.sy,
     tx |-> p.sx * l.tx + p.kx * l.ty + p.tx,
     ty |-> p.ky * l.tx + p.sy * l.ty + p.ty]

\* UsvgPathBboxExt::to_skia_rect: PathBbox (x y w h) to tiny_skia::Rect (l t r b)
to_skia_rect(b) == [left |-> b.x, top |-> b.y, right |-> b.x + b.w, bottom |-> b.y + b.h]

\* A box mapped by a transform without skew and with positive scale.
TransformBox(b, ts) ==
    [x |-> ts.sx * b.x + ts.tx, y |-> ts.sy * b.y + ts.ty,
     w |-> ts.sx * b.w, h |-> ts.sy * b.h]

Inflate(b, m) == [x |-> b.x - m, y |-> b.y - m, w |-> b.w + 2 * m, h |-> b.h + 2 * m]

\* convert_blend_mode, mutated: Multiply falls through to the Normal arm.
convert_blend_mode_collapsed(m) ==
    IF m \in {"Normal", "Multiply"} THEN "SourceOver" ELSE m

\* convert_blend_mode
convert_blend_mode(m) ==
    CASE m = "Normal"     -> "SourceOver"
      [] m = "Multiply"   -> "Multiply"
      [] m = "Screen"     -> "Screen"
      [] m = "Overlay"    -> "Overlay"
      [] m = "Darken"     -> "Darken"
      [] m = "Lighten"    -> "Lighten"
      [] m = "ColorDodge" -> "ColorDodge"
      [] m = "ColorBurn"  -> "ColorBurn"
      [] m = "HardLight"  -> "HardLight"
      [] m = "SoftLight"  -> "SoftLight"
      [] m = "Difference" -> "Difference"
      [] m = "Exclusion"  -> "Exclusion"
      [] m = "Hue"        -> "Hue"
      [] m = "Saturation" -> "Saturation"
      [] m = "Color"      -> "Color"
      [] m = "Luminosity" -> "Luminosity"

----------------------------------------------------------------------------
\* External collaborators of the converter (other crates / modules).

\* usvg::Group::should_isolate
should_isolate(g) ==
    \/ g.isolate
    \/ g.opacity /= 100
    \/ g.clip_path /= None
    \/ g.mask /= None
    \/ g.filters /= <<>>
    \/ g.blend_mode /= "Normal"

\* crate::filter::convert: (resolved filters, optional region).  An invalid
\* filter yields no region; a valid one yields the layer box grown by its
\* margin when a base is given, and its own rectangle otherwise.
filter_convert(filters, layer, object, ts) ==
    IF filters = <<>> THEN [filters |-> <<>>, region |-> None]
    ELSE LET f == filters[1] IN
         IF ~f.valid THEN [filters |-> <<>>, region |-> None]
         ELSE [filters |-> [i \in DOMAIN filters |-> [id |-> filters[i].id, ts |-> ts]],
               region |-> IF layer /= None
                          THEN Some(Inflate(layer[1], f.margin))
                          ELSE Some(TransformBox(f.rect, ts))]

\* A call of crate::filter::convert for the group `id`: what it returns and the
\* ghost event that records its arguments and the region.
filter_convert_traced(id, filters, layer, object, ts) ==
    [out |-> filter_convert(filters, layer, object, ts),
     event |-> [id |-> id, layer |-> layer, object |-> object, ts |-> ts,
                region |-> filter_convert(filters, layer, object, ts).region]]

\* crate::clip::convert / crate::mask::convert: the reference resolved against
\* the object bounding box and the transform.
clip_convert(ref, object_bbox, ts) ==
    IF ref = None THEN None
    ELSE Some([ref |-> ref[1], bbox |-> object_bbox, ts |-> ts])

mask_convert(ref, object_bbox, ts) ==
    IF ref = None THEN None
    ELSE Some([ref |-> ref[1], bbox |-> object_bbox, ts |-> ts])

\* crate::paint_server::convert
paint_convert(paint, opacity, rect) ==
    Some([paint |-> paint, opacity |-> opacity, rect |-> rect])

\* crate::path::convert: a fill pass and/or a stroke pass, each with its own
\* box; the stroke pass grows the box by half the stroke width.
path_convert(upath, ts, st) ==
    LET object == TransformBox(upath.bbox, ts)
        sbox   == TransformBox(Inflate(upath.bbox, upath.half_width), ts)
        fillN  == IF upath.fill
                  THEN <<[kind |-> "FillPath", bbox |-> object, src |-> upath.id]>>
                  ELSE <<>>
        strokeN == IF upath.stroke
                   THEN <<[kind |-> "StrokePath", bbox |-> sbox, src |-> upath.id]>>
                   ELSE <<>>
        l1 == IF upath.fill THEN expand(new_bbox, object) ELSE new_bbox
        l2 == IF upath.stroke THEN expand(l1, sbox) ELSE l1
    IN IF ~upath.fill /\ ~upath.stroke
       THEN [ret |-> None, children |-> st.children]
       ELSE [ret |-> Some(<<l2, object>>),
             children |-> st.children \o fillN \o strokeN]

\* crate::image::convert
image_convert(uimage, ts, st) ==
    LET b == TransformBox(uimage.rect, ts) IN
    [ret |-> Some(<<b, b>>),
     children |-> Append(st.children, [kind |-> "Image", bbox |-> b, src |-> uimage.id])]

----------------------------------------------------------------------------
\* The converter.  `st` is the caller-owned output list (`children: &mut Vec<Node>`)
\* together with the ghost traces; every operator returns the value the function
\* returns (`ret`) and the list and traces as the call leaves them.

RECURSIVE convert_node_inner(_, _, _)
RECURSIVE convert_group(_, _, _)
RECURSIVE convert_children(_, _, _)
RECURSIVE convert_children_from(_, _, _, _, _)
RECURSIVE convert_children_next(_, _, _, _, _)

\* The leaf converters touch only the list.
WithTraces(r, st) ==
    [ret |-> r.ret, children |-> r.children, calls |-> st.calls, fcalls |-> st.fcalls]

\* convert_children, loop body, mutated: the child's boxes overwrite the unions.
accumulate_overwrite(acc, ret) ==
    IF ret /= None
    THEN [layer |-> ret[1][1], object |-> ret[1][2]]
    ELSE acc

\* convert_children, loop body: a child that returned boxes grows both unions.
accumulate(acc, ret) ==
    IF ret /= None
    THEN [layer |-> expand(acc.layer, ret[1][1]), object |-> expand(acc.object, ret[1][2])]
    ELSE acc

\* convert_empty_group, mutated: a filter on an empty group is dropped as well.
convert_empty_group_drops(ugroup, transform, st) ==
    [ret |-> None, children |-> st.children, calls |-> st.calls, fcalls |-> st.fcalls]

\* convert_empty_group
convert_empty_group(ugroup, transform, st) ==
    IF ugroup.filters = <<>>
    THEN [ret |-> None, children |-> st.children, calls |-> st.calls, fcalls |-> st.fcalls]
    ELSE
    LET fct == filter_convert_traced(ugroup.id, ugroup.filters, None, None, transform)
        fc == fct.out
        fcalls1 == Append(st.fcalls, fct.event)
    IN IF fc.region = None
       THEN [ret |-> None, children |-> st.children, calls |-> st.calls, fcalls |-> fcalls1]
       ELSE
       LET layer_bbox == fc.region[1]
           filter_fill == IF ugroup.filter_fill /= None
                          THEN paint_convert(ugroup.filter_fill[1], 100, to_skia_rect(layer_bbox))
                          ELSE None
           filter_stroke == IF ugroup.filter_stroke /= None
                            THEN paint_convert(ugroup.filter_stroke[1], 100, to_skia_rect(layer_bbox))
                            ELSE None
           group == [kind |-> "Group",
                     opacity |-> ugroup.opacity,
                     blend_mode |-> convert_blend_mode(ugroup.blend_mode),
                     clip_path |-> None,
                     mask |-> None,
                     filters |-> fc.filters,
                     filter_fill |-> filter_fill,
                     filter_stroke |-> filter_stroke,
                     bbox |-> layer_bbox,
                     children |-> <<>>,
                     src |-> ugroup.id]
           object_bbox == [x |-> 0, y |-> 0, w |-> 1, h |-> 1]
       IN [ret |-> Some(<<layer_bbox, object_bbox>>),
           children |-> Append(st.children, group),
           calls |-> st.calls, fcalls |-> fcalls1]

\* convert_group after its children produced content, mutated: a filter that
\* resolves to no region is ignored and the group is emitted unfiltered.
finish_group_unfiltered(ugroup, transform, st, r) ==
    LET layer0 == r.ret[1][1]
        object_bbox == r.ret[1][2]
        fct == filter_convert_traced(ugroup.id, ugroup.filters,
                                     Some(layer0), Some(object_bbox), transform)
        fc == fct.out
        layer_bbox == IF fc.region /= None THEN fc.region[1] ELSE layer0
        group == [kind |-> "Group",
                  opacity |-> ugroup.opacity,
                  blend_mode |-> convert_blend_mode(ugroup.blend_mode),
                  clip_path |-> clip_convert(ugroup.clip_path, object_bbox, transform),
                  mask |-> mask_convert(ugroup.mask, object_bbox, transform),
                  filters |-> fc.filters,
                  filter_fill |-> None,
                  filter_stroke |-> None,
                  bbox |-> layer_bbox,
                  children |-> r.children,
                  src |-> ugroup.id]
    IN [ret |-> Some(<<layer_bbox, object_bbox>>),
        children |-> Append(st.children, group),
        calls |-> r.calls,
        fcalls |-> Append(r.fcalls, fct.event)]

\* convert_group after its children produced content (`r` is what
\* convert_children returned for the new list group_children): filter
\* resolution, substitute paints, the Group node.
finish_group(ugroup, transform, st, r) ==
    LET layer0 == r.ret[1][1]
        object_bbox == r.ret[1][2]
        fct == filter_convert_traced(ugroup.id, ugroup.filters,
                                     Some(layer0), Some(object_bbox), transform)
        fc == fct.out
        fcalls1 == Append(r.fcalls, fct.event)
    IN IF ugroup.filters /= <<>> /\ fc.region = None
       THEN [ret |-> None, children |-> st.children, calls |-> r.calls, fcalls |-> fcalls1]
       ELSE
       LET layer_bbox == IF fc.region /= None THEN fc.region[1] ELSE layer0
           filter_fill == IF ugroup.filter_fill /= None
                          THEN paint_convert(ugroup.filter_fill[1], 100, to_skia_rect(layer_bbox))
                          ELSE None
           filter_stroke == IF ugroup.filter_stroke /= None
                            THEN paint_convert(ugroup.filter_stroke[1], 100, to_skia_rect(layer_bbox))
                            ELSE None
           group == [kind |-> "Group",
                     opacity |-> ugroup.opacity,
                     blend_mode |-> convert_blend_mode(ugroup.blend_mode),
                     clip_path |-> clip_convert(ugroup.clip_path, object_bbox, transform),
                     mask |-> mask_convert(ugroup.mask, object_bbox, transform),
                     filters |-> fc.filters,
                     filter_fill |-> filter_fill,
                     filter_stroke |-> filter_stroke,
                     bbox |-> layer_bbox,
                     children |-> r.children,
                     src |-> ugroup.id]
       IN [ret |-> Some(<<layer_bbox, object_bbox>>),
           children |-> Append(st.children, group),
           calls |-> r.calls, fcalls |-> fcalls1]

\* convert_group, the isolated branch: `r` is what convert_children returned for
\* the new list group_children.
isolated_group(ugroup, transform, st, r) ==
    IF r.ret = None
    THEN convert_empty_group(ugroup, transform,
             [children |-> st.children, calls |-> r.calls, fcalls |-> r.fcalls])
    ELSE finish_group(ugroup, transform, st, r)

\* convert_group, mutated: the should_isolate test is missing, every group
\* gets a list of its own.
convert_group_never_flattens(node, parent_transform, st) ==
    isolated_group(node, pre_concat(parent_transform, to_native(node.transform)), st,
        convert_children(node, pre_concat(parent_transform, to_native(node.transform)),
            [st EXCEPT !.children = <<>>]))

\* convert_group
convert_group(node, parent_transform, st) ==
    IF ~should_isolate(node)
    THEN convert_children(node, pre_concat(parent_transform, to_native(node.transform)), st)
    ELSE isolated_group(node, pre_concat(parent_transform, to_native(node.transform)), st,
             convert_children(node, pre_concat(parent_transform, to_native(node.transform)),
                 [st EXCEPT !.children = <<>>]))

\* convert_children, the loop from child i on.
convert_children_from(parent, parent_transform, i, acc, st) ==
    IF i > Len(parent.children)
    THEN [acc |-> acc, children |-> st.children, calls |-> st.calls, fcalls |-> st.fcalls]
    ELSE convert_children_next(parent, parent_transform, i, acc,
             convert_node_inner(parent.children[i], parent_transform, st))

\* convert_children, one iteration: `r` is what convert_node_inner returned for child i.
convert_children_next(parent, parent_transform, i, acc, r) ==
    convert_children_from(parent, parent_transform, i + 1, accumulate(acc, r.ret),
        [children |-> r.children, calls |-> r.calls, fcalls |-> r.fcalls])

\* convert_children, after the loop: both unions must have left the sentinel.
convert_children_result(r) ==
    [ret |-> IF fuzzy_ne(r.acc.layer, new_bbox) /\ fuzzy_ne(r.acc.object, new_bbox)
             THEN Some(<<r.acc.layer, r.acc.object>>)
             ELSE None,
     children |-> r.children, calls |-> r.calls, fcalls |-> r.fcalls]

\* convert_children
convert_children(parent, parent_transform, st) ==
    convert_children_result(
        convert_children_from(parent, parent_transform, 1,
            [layer |-> new_bbox, object |-> new_bbox], st))

\* The ghost event of one convert_node_inner call.
Traced(node, st, r) ==
    [r EXCEPT !.calls = Append(r.calls, [id |-> node.id, pre |-> st.children,
                                         post |-> r.children, ret |-> r.ret])]

\* convert_node_inner, mutated: a Text node is emitted as a node of its own.
convert_node_inner_text_emits(node, parent_transform, st) ==
    Traced(node, st,
        CASE node.kind = "Group" -> convert_group(node, parent_transform, st)
          [] node.kind = "Path"  -> WithTraces(path_convert(node, parent_transform, st), st)
          [] node.kind = "Image" -> WithTraces(image_convert(node, parent_transform, st), st)
          [] node.kind = "Text"  ->
                [ret |-> None,
                 children |-> Append(st.children,
                     [kind |-> "FillPath", bbox |-> new_bbox, src |-> node.id]),
                 calls |-> st.calls, fcalls |-> st.fcalls])

\* convert_node_inner
convert_node_inner(node, parent_transform, st) ==
    Traced(node, st,
        CASE node.kind = "Group" -> convert_group(node, parent_transform, st)
          [] node.kind = "Path"  -> WithTraces(path_convert(node, parent_transform, st), st)
          [] node.kind = "Image" -> WithTraces(image_convert(node, parent_transform, st), st)
          [] node.kind = "Text"  ->
                [ret |-> None, children |-> st.children,
                 calls |-> st.calls, fcalls |-> st.fcalls])

\* convert_node, `bboxes.map(|b| b.0)`: the layer box of the pair.
layer_of(r) ==
    [children |-> r.children,
     bbox |-> IF r.ret = None THEN None ELSE Some(r.ret[1][1]),
     calls |-> r.calls, fcalls |-> r.fcalls]

\* convert_node, mutated: the object box is handed out instead of the layer box.
convert_node_object_box(node, transform) ==
    layer_of(
        [convert_node_inner(node, transform,
             [children |-> <<>>, calls |-> <<>>, fcalls |-> <<>>])
         EXCEPT !.ret = IF @ = None THEN None ELSE Some(<<@[1][2], @[1][2]>>)])

\* convert_node
convert_node(node, transform) ==
    layer_of(convert_node_inner(node, transform,
                 [children |-> <<>>, calls |-> <<>>, fcalls |-> <<>>]))

----------------------------------------------------------------------------
\* usvg queries of the entry points.

RECURSIVE has_text_nodes(_)
\* usvg::Tree::has_text_nodes, on the subtree of a node
has_text_nodes(node) ==
    \/ node.kind = "Text"
    \/ /\ node.kind = "Group"
       /\ \E i \in DOMAIN node.children : has_text_nodes(node.children[i])

\* "Make sure bbox was changed": a group without content has no box.
changed_bbox(b) == IF fuzzy_eq(b, new_bbox) THEN None ELSE Some(b)

expand_opt(acc, b) == IF b /= None THEN expand(acc, b[1]) ELSE acc

RECURSIVE calc_node_bbox(_, _)
RECURSIVE calc_children_bbox(_, _, _, _)
\* usvg calc_node_bbox: a path's box with its stroke, an image's rectangle,
\* the union over a group's children; a text node has none.
calc_node_bbox(node, ts) ==
    CASE node.kind = "Path"  -> Some(TransformBox(Inflate(node.bbox,
                                     IF node.stroke THEN node.half_width ELSE 0), ts))
      [] node.kind = "Image" -> Some(TransformBox(node.rect, ts))
      [] node.kind = "Text"  -> None
      [] node.kind = "Group" -> changed_bbox(calc_children_bbox(node, ts, 1, new_bbox))

calc_children_bbox(node, ts, i, acc) ==
    IF i > Len(node.children) THEN acc
    ELSE calc_children_bbox(node, ts, i + 1,
             expand_opt(acc,
                 calc_node_bbox(node.children[i],
                     IF node.children[i].kind = "Group"
                     THEN pre_concat(ts, to_native(node.children[i].transform))
                     ELSE ts)))

\* usvg::NodeExt::calculate_bbox
calculate_bbox(node) ==
    calc_node_bbox(node, IF node.kind = "Group" THEN to_native(node.transform)
                         ELSE TransformDefault)

----------------------------------------------------------------------------
\* The entry points: what is returned, what is logged, and the ghost traces.

TextWarning == "Text nodes should be already converted into paths."
ZeroSizeWarning(id) == <<"Node has zero size.", id>>

\* The `Self { size, view_box, content_area: layer_bbox, children }` of both
\* entry points; `c` is what convert_node returned.
make_tree(size, view_box, c) ==
    [result |-> Some([size |-> size,
                      view_box |-> view_box,
                      content_area |-> c.bbox,
                      children |-> c.children]),
     log |-> <<>>, calls |-> c.calls, fcalls |-> c.fcalls]

\* Tree::from_usvg
from_usvg(t) ==
    [make_tree(t.size, t.view_box, convert_node(t.root, TransformDefault))
     EXCEPT !.log = IF has_text_nodes(t.root) THEN <<TextWarning>> ELSE <<>>]

\* Tree::from_usvg_node once the node's box is known: `rect` is
\* `node.calculate_bbox().and_then(|r| r.to_rect())`.
with_node_bbox(node, rect) ==
    IF rect = None
    THEN [result |-> None, log |-> <<ZeroSizeWarning(node.id)>>,
          calls |-> <<>>, fcalls |-> <<>>]
    ELSE make_tree([w |-> rect[1].w, h |-> rect[1].h],
                   [rect |-> rect[1], aspect |-> AspectRatioDefault],
                   convert_node(node, TransformDefault))

\* Option::and_then(|r| r.to_rect())
and_then_to_rect(bb) == IF bb = None THEN None ELSE to_rect(bb[1])

\* Tree::from_usvg_node, mutated: the `.and_then(|r| r.to_rect())` is missing.
from_usvg_node_any_bbox(node) == with_node_bbox(node, calculate_bbox(node))

\* Tree::from_usvg_node
from_usvg_node(node) == with_node_bbox(node, and_then_to_rect(calculate_bbox(node)))

----------------------------------------------------------------------------
\* The inputs.

BlendModes ==
    {"Normal", "Multiply", "Screen", "Overlay", "Darken", "Lighten", "ColorDodge",
     "ColorBurn", "HardLight", "SoftLight", "Difference", "Exclusion", "Hue",
     "Saturation", "Color", "Luminosity"}

UTransformDefault == [a |-> 1, b |-> 0, c |-> 0, d |-> 1, e |-> 0, f |-> 0]

\* usvg::Group::default()
DefaultGroup ==
    [kind |-> "Group", id |-> <<>>, transform |-> UTransformDefault, opacity |-> 100,
     blend_mode |-> "Normal", clip_path |-> None, mask |-> None, filters |-> <<>>,
     filter_fill |-> None, filter_stroke |-> None, isolate |-> FALSE, children |-> <<>>]

\* A plain group with a transform: flattened.
GFlat == [DefaultGroup EXCEPT !.transform = [a |-> 2, b |-> 0, c |-> 0, d |-> 2, e |-> 1, f |-> 0]]

\* A group isolated by opacity, blend mode and clip path; no filter.
GIso == [DefaultGroup EXCEPT !.opacity = 50, !.blend_mode = "Multiply",
                             !.clip_path = Some("clip1")]

\* A group with a filter that resolves, a clip path, a mask and substitute paints.
GFilter ==
    [DefaultGroup EXCEPT
        !.filters = <<[id |-> "flood", valid |-> TRUE, margin |-> 1,
                       rect |-> [x |-> 0, y |-> 0, w |-> 6, h |-> 6]]>>,
        !.blend_mode = "Screen",
        !.clip_path = Some("clip1"), !.mask = Some("mask1"),
        !.filter_fill = Some("paintA"), !.filter_stroke = Some("paintB")]

\* A group with a filter that resolves to no region.
GBadFilter ==
    [DefaultGroup EXCEPT
        !.filters = <<[id |-> "bad", valid |-> FALSE, margin |-> 0,
                       rect |-> [x |-> 0, y |-> 0, w |-> 0, h |-> 0]]>>]

\* A filled vertical line (zero width), a filled and stroked square, an image, a text.
PathLine == [kind |-> "Path", id |-> <<>>, fill |-> TRUE, stroke |-> FALSE,
             bbox |-> [x |-> 0, y |-> 0, w |-> 0, h |-> 2], half_width |-> 0]
PathFS   == [kind |-> "Path", id |-> <<>>, fill |-> TRUE, stroke |-> TRUE,
             bbox |-> [x |-> 1, y |-> 1, w |-> 2, h |-> 2], half_width |-> 1]
ImageA   == [kind |-> "Image", id |-> <<>>, rect |-> [x |-> 3, y |-> 0, w |-> 2, h |-> 1]]
TextA    == [kind |-> "Text", id |-> <<>>]

\* The nodes a document is built from.
NodeKinds == <<PathLine, PathFS, ImageA, TextA, GFlat, GIso, GFilter, GBadFilter>>

\* A document below its root is written down in document order, one entry
\* <<kind, parent>> per node: an index into NodeKinds and the position of the
\* parent (0 for the root).
RECURSIVE RightPath(_, _)
\* The last node's chain of ancestors: where the next node may be attached.
RightPath(code, j) == IF j = 0 THEN {0} ELSE {j} \cup RightPath(code, code[j][2])

OpenGroups(code) ==
    { j \in RightPath(code, Len(code)) : j = 0 \/ NodeKinds[code[j][1]].kind = "Group" }

RECURSIVE Kids(_, _, _)
\* The children of node j, from position k on, each with its own children.
Kids(code, j, k) ==
    IF k > Len(code) THEN <<>>
    ELSE IF code[k][2] = j
         THEN <<IF NodeKinds[code[k][1]].kind = "Group"
                THEN [NodeKinds[code[k][1]] EXCEPT !.children = Kids(code, k, k + 1)]
                ELSE NodeKinds[code[k][1]]>> \o Kids(code, j, k + 1)
         ELSE Kids(code, j, k + 1)

RECURSIVE Label(_, _)
\* Every node gets its position in the document as its id.
Label(node, id) ==
    IF node.kind = "Group"
    THEN [node EXCEPT !.id = id,
                      !.children = [i \in DOMAIN node.children |->
                                        Label(node.children[i], Append(id, i))]]
    ELSE [node EXCEPT !.id = id]

\* A document: the root is the default group.
Doc(f) ==
    [root |-> Label([DefaultGroup EXCEPT !.children = f], <<>>),
     size |-> [w |-> 10, h |-> 10],
     view_box |-> [rect |-> [x |-> 0, y |-> 0, w |-> 10, h |-> 10],
                   aspect |-> AspectRatioDefault]]

RECURSIVE InputTree(_, _)
\* The input is the document written down so far, or one with up to n more nodes.
InputTree(code, n) ==
    \/ tree = Doc(Kids(code, 0, 1))
    \/ /\ n > 0
       /\ \E k \in DOMAIN NodeKinds, p \in OpenGroups(code) :
              InputTree(Append(code, <<k, p>>), n - 1)

RECURSIVE NodeAt(_, _)
NodeAt(node, id) ==
    IF id = <<>> THEN node ELSE NodeAt(node.children[Head(id)], Tail(id))

RECURSIVE Ids(_)
\* The ids of a node and of all its descendants.
Ids(node) ==
    {node.id} \cup
    (IF node.kind = "Group"
     THEN UNION { Ids(node.children[i]) : i \in DOMAIN node.children }
     ELSE {})

\* The node of the document with the given id.
Node(id) == NodeAt(tree.root, id)

----------------------------------------------------------------------------
\* The state machine: one call of one entry point on one input.

Init ==
    /\ \/ /\ InputTree(<<>>, MaxNodes)
          /\ mode = "Normal"
       \/ /\ tree = Doc(<<>>)
          /\ mode \in BlendModes
    /\ pc = "ready"
    /\ entry = "none"
    /\ arg = <<>>
    /\ result = None
    /\ log = <<>>
    /\ calls = <<>>
    /\ fcalls = <<>>

\* The call returns: its value, its warnings and the ghost traces are recorded.
Returned(r) ==
    /\ result' = r.result
    /\ log' = r.log
    /\ calls' = r.calls
    /\ fcalls' = r.fcalls

\* The pair convert_node returns.
node_result(c) ==
    [result |-> <<c.children, c.bbox>>, log |-> <<>>, calls |-> c.calls, fcalls |-> c.fcalls]

FromUsvg ==
    /\ pc = "ready"
    /\ Returned(from_usvg(tree))
    /\ pc' = "done"
    /\ entry' = "from_usvg"
    /\ arg' = <<>>
    /\ UNCHANGED <<tree, mode>>

FromUsvgNode(id) ==
    /\ pc = "ready"
    /\ Returned(from_usvg_node(Node(id)))
    /\ pc' = "done"
    /\ entry' = "from_usvg_node"
    /\ arg' = id
    /\ UNCHANGED <<tree, mode>>

\* A direct call of the public convert_node under a non-default transform.
CallerTransform == [sx |-> 1, ky |-> 0, kx |-> 0, sy |-> 1, tx |-> 5, ty |-> 7]

ConvertNode(id) ==
    /\ pc = "ready"
    /\ Returned(node_result(convert_node(Node(id), CallerTransform)))
    /\ pc' = "done"
    /\ entry' = "convert_node"
    /\ arg' = id
    /\ UNCHANGED <<tree, mode>>

ConvertBlendMode ==
    /\ pc = "ready"
    /\ result' = convert_blend_mode(mode)
    /\ pc' = "done"
    /\ entry' = "convert_blend_mode"
    /\ UNCHANGED <<tree, mode, arg, log, calls, fcalls>>

\* The nodes handed to from_usvg_node: the root and its children (every subtree
\* within the bound is a child of the root of some document).
TopIds == { id \in Ids(tree.root) : Len(id) <= 1 }

Next ==
    \/ FromUsvg
    \/ \E id \in TopIds : FromUsvgNode(id)
    \/ ConvertNode(<<>>)
    \/ ConvertBlendMode

Spec == Init /\ [][Next]_vars

----------------------------------------------------------------------------
\* Vocabulary of the properties.

Done == pc = "done"
TreeEntry == entry \in {"from_usvg", "from_usvg_node"}
Converted == Done /\ entry \in {"from_usvg", "from_usvg_node", "convert_node"}

\* The top-level output list of the call.
FinalChildren ==
    IF TreeEntry THEN (IF result = None THEN <<>> ELSE result[1].children)
    ELSE IF entry = "convert_node" THEN result[1]
    ELSE <<>>

RECURSIVE OutNodes(_)
\* Every output node of a list, at any depth.
OutNodes(list) ==
    UNION { {list[i]} \cup (IF list[i].kind = "Group" THEN OutNodes(list[i].children) ELSE {})
            : i \in DOMAIN list }

RECURSIVE OutLists(_)
\* Every children list of the output: the list itself and those of its groups.
OutLists(list) ==
    {list} \cup UNION { IF list[i].kind = "Group" THEN OutLists(list[i].children) ELSE {}
                        : i \in DOMAIN list }

Events == { calls[i] : i \in DOMAIN calls }
Visited(id) == \E e \in Events : e.id = id
EventOf(id) == CHOOSE e \in Events : e.id = id
FilterCallsOf(id) == { fcalls[i] : i \in { j \in DOMAIN fcalls : fcalls[j].id = id } }

ChildIds(id) == [i \in DOMAIN Node(id).children |-> Append(id, i)]

\* What one call appended to the list it was given.
IsPrefix(a, b) == Len(a) <= Len(b) /\ SubSeq(b, 1, Len(a)) = a
Appended(e) == SubSeq(e.post, Len(e.pre) + 1, Len(e.post))

\* The axis-aligned union of a non-empty set of boxes.
UnionBox(S) ==
    LET x1 == CHOOSE v \in { b.x : b \in S } : \A b \in S : v <= b.x
        y1 == CHOOSE v \in { b.y : b \in S } : \A b \in S : v <= b.y
        x2 == CHOOSE v \in { b.x + b.w : b \in S } : \A b \in S : v >= b.x + b.w
        y2 == CHOOSE v \in { b.y + b.h : b \in S } : \A b \in S : v >= b.y + b.h
    IN [x |-> x1, y |-> y1, w |-> x2 - x1, h |-> y2 - y1]

\* The boxes the children of a visited group returned.
ChildRets(id) ==
    { EventOf(ChildIds(id)[i]).ret : i \in DOMAIN ChildIds(id) } \ {None}

ChildrenProducedContent(id) == ChildRets(id) /= {}

\* The plain accumulation of the children's boxes.
PlainAccumulation(id) ==
    IF ChildRets(id) = {} THEN None
    ELSE Some(<<UnionBox({ r[1][1] : r \in ChildRets(id) }),
                UnionBox({ r[1][2] : r \in ChildRets(id) })>>)

RECURSIVE PathLeq(_, _)
\* Document order of ids: an ancestor before its descendants, siblings by index.
PathLeq(p, q) ==
    IF p = <<>> THEN TRUE
    ELSE IF q = <<>> THEN FALSE
    ELSE IF Head(p) /= Head(q) THEN Head(p) < Head(q)
    ELSE PathLeq(Tail(p), Tail(q))

IsGroupEvent(e) == Node(e.id).kind = "Group"

----------------------------------------------------------------------------
\* C1 - Flattening: a group whose should_isolate() is false gets no Group node;
\* what its children emit is appended to the caller's list, after the nodes
\* already there and in the children's input order, and the pair returned is
\* the plain accumulation of the children's (layer, object) boxes.
C1_Flattening ==
    Converted =>
    \A e \in Events :
        (IsGroupEvent(e) /\ ~should_isolate(Node(e.id))) =>
            /\ \A n \in OutNodes(e.post) \cup OutNodes(FinalChildren) :
                   ~(n.kind = "Group" /\ n.src = e.id)
            /\ \A i \in DOMAIN ChildIds(e.id) :
                   /\ Visited(ChildIds(e.id)[i])
                   /\ IsPrefix(EventOf(ChildIds(e.id)[i]).pre, EventOf(ChildIds(e.id)[i]).post)
            /\ e.post = e.pre \o Concat([i \in DOMAIN ChildIds(e.id) |->
                                             Appended(EventOf(ChildIds(e.id)[i]))])
            /\ e.ret = PlainAccumulation(e.id)

\* A flattened group behind an earlier sibling that emitted: its child's fill
\* and stroke nodes land in the caller's list, after the sibling's node.
C1_Witness ==
    /\ Done /\ entry = "from_usvg"
    /\ \E e \in Events :
          /\ IsGroupEvent(e) /\ ~should_isolate(Node(e.id))
          /\ e.id /= <<>>
          /\ e.pre /= <<>>
          /\ e.ret /= None
          /\ Len(e.post) >= Len(e.pre) + 2

----------------------------------------------------------------------------
\* C2 - Filter invalidation: an isolated group with filters whose children
\* produced content and whose filter region does not resolve returns nothing,
\* leaves the caller's list as it was, emits no node of any descendant, and
\* contributes no box upward or to the content area.
InvalidatedGroup(e) ==
    /\ IsGroupEvent(e)
    /\ should_isolate(Node(e.id))
    /\ Node(e.id).filters /= <<>>
    /\ ChildrenProducedContent(e.id)
    /\ \E f \in FilterCallsOf(e.id) : f.region = None

C2_FilterInvalidation ==
    Converted =>
    \A e \in Events :
        InvalidatedGroup(e) =>
            /\ e.ret = None
            /\ e.post = e.pre
            /\ \A n \in OutNodes(e.post) \cup OutNodes(FinalChildren) :
                   n.src \notin Ids(Node(e.id))
            /\ (e.id = arg /\ TreeEntry /\ result /= None) => result[1].content_area = None

\* An invalidated group behind an earlier sibling that emitted; its own child
\* was converted with a valid box.
C2_Witness ==
    /\ Done /\ entry = "from_usvg"
    /\ \E e \in Events :
          /\ InvalidatedGroup(e)
          /\ e.pre /= <<>>
          /\ \E i \in DOMAIN ChildIds(e.id) :
                /\ Node(ChildIds(e.id)[i]).kind \in {"Path", "Image"}
                /\ EventOf(ChildIds(e.id)[i]).ret /= None

----------------------------------------------------------------------------
\* C3 - Isolation of filtered groups: a group with filters whose filter
\* resolves is emitted as exactly one Group node appended to the caller's
\* list, with content or without; without content the filter is resolved with
\* both base boxes absent, the Group has no children, its bbox is the resolved
\* region and (region, unit square) is returned; an isolated group with no
\* content and no filters emits nothing.
UnitSquare == [x |-> 0, y |-> 0, w |-> 1, h |-> 1]

C3_FilteredGroupIsolated ==
    Converted =>
    \A e \in Events :
        (IsGroupEvent(e) /\ should_isolate(Node(e.id))) =>
            /\ Node(e.id).filters /= <<>> =>
                  /\ Cardinality(FilterCallsOf(e.id)) = 1
                  /\ \A f \in FilterCallsOf(e.id) :
                        /\ f.region /= None =>
                              /\ Len(e.post) = Len(e.pre) + 1
                              /\ IsPrefix(e.pre, e.post)
                              /\ e.post[Len(e.post)].kind = "Group"
                              /\ e.post[Len(e.post)].src = e.id
                              /\ e.post[Len(e.post)].bbox = f.region[1]
                              /\ ChildrenProducedContent(e.id) =>
                                    e.post[Len(e.post)].children /= <<>>
                        /\ ~ChildrenProducedContent(e.id) =>
                              /\ f.layer = None /\ f.object = None
                              /\ f.region /= None =>
                                    /\ e.post[Len(e.post)].children = <<>>
                                    /\ e.ret = Some(<<f.region[1], UnitSquare>>)
            /\ (Node(e.id).filters = <<>> /\ ~ChildrenProducedContent(e.id)) =>
                  /\ e.post = e.pre
                  /\ e.ret = None

\* A filter-only group (its only child is a text) emitted behind an earlier sibling.
C3_Witness ==
    /\ Done /\ entry = "from_usvg"
    /\ \E e \in Events :
          /\ IsGroupEvent(e)
          /\ Node(e.id).filters /= <<>>
          /\ Node(e.id).children /= <<>>
          /\ ~ChildrenProducedContent(e.id)
          /\ e.pre /= <<>>
          /\ e.ret /= None
          /\ e.post[Len(e.post)].children = <<>>

----------------------------------------------------------------------------
\* C4 - Order preservation and text skip: in every output children list the
\* nodes are in the order of the input nodes they came from; a Text node
\* yields no output node and no box, and its siblings are still converted.
C4_OrderAndTextSkip ==
    Converted =>
    /\ \A list \in OutLists(FinalChildren) :
           \A i, j \in DOMAIN list :
               i < j => /\ PathLeq(list[i].src, list[j].src)
                        /\ list[i].src = list[j].src =>
                               (list[i].kind = "FillPath" /\ list[j].kind = "StrokePath")
    /\ \A n \in OutNodes(FinalChildren) : Node(n.src).kind /= "Text"
    /\ \A e \in Events :
           /\ Node(e.id).kind = "Text" => (e.ret = None /\ e.post = e.pre)
           /\ (IsGroupEvent(e) /\ \E i \in DOMAIN ChildIds(e.id) :
                                     Node(ChildIds(e.id)[i]).kind = "Text") =>
                  \A k \in DOMAIN ChildIds(e.id) :
                      /\ Visited(ChildIds(e.id)[k])
                      /\ Node(ChildIds(e.id)[k]).kind \in {"Path", "Image"} =>
                             /\ EventOf(ChildIds(e.id)[k]).ret /= None
                             /\ Len(EventOf(ChildIds(e.id)[k]).post)
                                    > Len(EventOf(ChildIds(e.id)[k]).pre)

\* [Shape A, Text, Shape B] yields [A', B'].
C4_Witness ==
    /\ Done /\ entry = "from_usvg"
    /\ Len(tree.root.children) = 3
    /\ tree.root.children[1].kind = "Image"
    /\ tree.root.children[2].kind = "Text"
    /\ tree.root.children[3].kind = "Path"
    /\ [i \in DOMAIN FinalChildren |-> FinalChildren[i].src] = << <<1>>, <<3>>, <<3>> >>

----------------------------------------------------------------------------
\* C5 - Text diagnostic: whenever a build (from_usvg or from_usvg_node)
\* converts a Text node, a diagnostic for the skipped text reaches the warning
\* sink, and the build completes.
TextConverted == \E e \in Events : Node(e.id).kind = "Text"

C5_TextDiagnostic ==
    (Done /\ TreeEntry /\ TextConverted) =>
        /\ result /= None
        /\ \E i \in DOMAIN log : log[i] = TextWarning

\* The whole-document entry point alone does warn.
C5_FromUsvgWarns ==
    (Done /\ entry = "from_usvg" /\ TextConverted) =>
        /\ result /= None
        /\ \E i \in DOMAIN log : log[i] = TextWarning

----------------------------------------------------------------------------
\* C6 - Single-subtree build failure: from_usvg_node returns no tree exactly
\* when the node's bounding box is absent or has zero width or zero height;
\* then one diagnostic is emitted and no conversion is run; otherwise the Tree's
\* view box is that box with the default aspect ratio and its size is the
\* box's size, also when the conversion produced no children.
C6_SubtreeBuild ==
    (Done /\ entry = "from_usvg_node") =>
        LET bb == calculate_bbox(Node(arg))
            degenerate == bb = None \/ bb[1].w = 0 \/ bb[1].h = 0
        IN /\ (result = None) <=> degenerate
           /\ result = None =>
                 /\ Len(log) = 1
                 /\ calls = <<>> /\ fcalls = <<>>
           /\ result /= None =>
                 /\ log = <<>>
                 /\ Visited(arg)
                 /\ result[1].view_box = [rect |-> bb[1], aspect |-> AspectRatioDefault]
                 /\ result[1].size = [w |-> bb[1].w, h |-> bb[1].h]

\* A node whose box is present but has zero width: no tree, one diagnostic.
C6_Witness ==
    /\ Done /\ entry = "from_usvg_node"
    /\ result = None
    /\ calculate_bbox(Node(arg)) /= None
    /\ Len(log) = 1

\* A node with a valid box whose conversion emits nothing still yields a Tree.
C6_EmptyTreeReached ==
    /\ Done /\ entry = "from_usvg_node"
    /\ result /= None
    /\ result[1].children = <<>>

----------------------------------------------------------------------------
\* C7 - Content area: absent exactly when the Tree's top-level children list
\* is empty, and otherwise the union of the layer boxes of the top-level
\* output nodes.
C7_ContentArea ==
    (Done /\ TreeEntry /\ result /= None) =>
        /\ (result[1].content_area = None) <=> (result[1].children = <<>>)
        /\ result[1].children /= <<>> =>
              result[1].content_area =
                  Some(UnionBox({ result[1].children[i].bbox : i \in DOMAIN result[1].children }))

\* A filtered Group next to a stroked path at the top level.
C7_Witness ==
    /\ Done /\ entry = "from_usvg"
    /\ result /= None
    /\ \E i, j \in DOMAIN result[1].children :
          /\ result[1].children[i].kind = "Group"
          /\ result[1].children[i].filters /= <<>>
          /\ result[1].children[j].kind = "StrokePath"
    /\ result[1].content_area /= None

----------------------------------------------------------------------------
\* C8 - Blend-mode totality: each of the 16 modes maps to exactly one
\* operator, no two modes to the same one, Normal to SourceOver and every
\* other mode to the operator of its name; every emitted Group carries the
\* mapping of its input group's mode.
OperatorOf(m) == IF m = "Normal" THEN "SourceOver" ELSE m

C8_BlendMode ==
    /\ (Done /\ entry = "convert_blend_mode") =>
           /\ Cardinality(BlendModes) = 16
           /\ result = OperatorOf(mode)
           /\ \A m \in BlendModes \ {mode} : convert_blend_mode(m) /= result
    /\ Converted =>
           \A n \in OutNodes(FinalChildren) :
               n.kind = "Group" => n.blend_mode = OperatorOf(Node(n.src).blend_mode)

\* A direct call on a mode other than Normal.
C8_Witness ==
    /\ Done /\ entry = "convert_blend_mode"
    /\ mode = "Luminosity"
    /\ result = "Luminosity"

----------------------------------------------------------------------------
\* C9 - Accumulation is order-independent: for every group and every
\* permutation of its children convert_children returns the same pair (or the
\* same "no content"), while the appended nodes follow the permuted order.
RECURSIVE ComposedAlong(_, _, _)
\* The transform convert_group composes for the group with the given id,
\* starting from `node` under `ts`.
ComposedAlong(node, id, ts) ==
    IF id = <<>> THEN pre_concat(ts, to_native(node.transform))
    ELSE ComposedAlong(node.children[Head(id)], Tail(id),
                       pre_concat(ts, to_native(node.transform)))

ComposedTransform(id) == ComposedAlong(tree.root, id, TransformDefault)

Perms(n) == { p \in [1 .. n -> 1 .. n] : \A i, j \in 1 .. n : p[i] = p[j] => i = j }

EmptySt == [children |-> <<>>, calls |-> <<>>, fcalls |-> <<>>]

Permuted(g, p) == [g EXCEPT !.children = [i \in DOMAIN g.children |-> g.children[p[i]]]]

C9_OrderIndependent ==
    (Done /\ entry = "from_usvg") =>
    \A e \in Events :
        IsGroupEvent(e) =>
            LET g == Node(e.id)
                ts == ComposedTransform(e.id)
                r0 == convert_children(g, ts, EmptySt)
            IN /\ ~should_isolate(g) => e.ret = r0.ret
               /\ \A p \in Perms(Len(g.children)) :
                      LET rp == convert_children(Permuted(g, p), ts, EmptySt)
                      IN /\ rp.ret = r0.ret
                         /\ rp.children =
                                Concat([i \in DOMAIN g.children |->
                                    convert_node_inner(g.children[p[i]], ts, EmptySt).children])

\* Three children with content, two of them with different boxes.
C9_Witness ==
    /\ Done /\ entry = "from_usvg"
    /\ Len(tree.root.children) = 3
    /\ Cardinality(ChildRets(<<>>)) >= 2
    /\ EventOf(<<>>).ret /= None

----------------------------------------------------------------------------
\* C10 - Clip and mask resolution on every emitted Group, the filter-only
\* Group included: clip_path and mask are the input group's references
\* resolved against the object box returned for the group and the composed
\* transform.
C10_ClipMaskResolved ==
    (Done /\ entry = "from_usvg") =>
    \A n \in OutNodes(FinalChildren) :
        n.kind = "Group" =>
            LET g == Node(n.src)
                object_bbox == EventOf(n.src).ret[1][2]
                ts == ComposedTransform(n.src)
            IN /\ n.clip_path = clip_convert(g.clip_path, object_bbox, ts)
               /\ n.mask = mask_convert(g.mask, object_bbox, ts)

\* The same for the Groups whose children produced content.
C10_ClipMaskResolvedWithContent ==
    (Done /\ entry = "from_usvg") =>
    \A n \in OutNodes(FinalChildren) :
        (n.kind = "Group" /\ ChildrenProducedContent(n.src)) =>
            LET g == Node(n.src)
                object_bbox == EventOf(n.src).ret[1][2]
                ts == ComposedTransform(n.src)
            IN /\ n.clip_path = clip_convert(g.clip_path, object_bbox, ts)
               /\ n.mask = mask_convert(g.mask, object_bbox, ts)

====
